---- MODULE Spec2Model ----
(***************************************************************************)
(* AlphaPy, module plots (src/plots.py): the plot routines, the output     *)
(* writer write_plot and the dispatcher generate_plots, as a state machine *)
(* over the model container, the files on disk and matplotlib's current    *)
(* figure.  Every routine is one action; the external statistical and      *)
(* rendering libraries are modelled by their effect on that state, and     *)
(* their failures (an exception raised by a library routine, a save that   *)
(* cannot write) are inputs of the action that calls them.                 *)
(***************************************************************************)
EXTENDS Integers, Sequences, FiniteSets, TLC

VARIABLES
    model,      \* the model container the caller owns
    disk,       \* the files on disk: path -> saved content
    curfig,     \* matplotlib's implicit current figure
    call,       \* what the last call did (history of one call)
    ncalls      \* number of calls made so far

vars == <<model, disk, curfig, call, ncalls>>

-----------------------------------------------------------------------------
(* Bounds of the model *)

MaxAlgos == 2
MaxCalls == 2

-----------------------------------------------------------------------------
(* Values of the program *)

\* globs.USEP and globs.SSEP, as the filename convention gives them
USEP == "_"
SSEP == "/"

\* estimators.ModelType
ModelTypes == {"classification", "regression"}
classification == "classification"

Algos == {"svm", "rf"}
Partitions == {"train", "test", "valid"}
Vizlibs == {"matplotlib", "seaborn", "bokeh", "plotly", "altair"}
PlotFlags == {"calibration_plot", "confusion_matrix", "importances",
              "learning_curve", "roc_curve"}
BaseDirs == {"/tmp/out", "out"}
Projects == {"proj1"}

None == [none |-> TRUE, artists |-> {}]
Handle(a) == [none |-> FALSE, artists |-> a]
NoFigure == [open |-> FALSE, artists |-> {}]
Artist(kind, algo, partition) == [kind |-> kind, algo |-> algo, partition |-> partition]

RECURSIVE SeqsUpTo(_, _)
SeqsUpTo(S, n) ==
    IF n = 0 THEN {<<>>}
    ELSE LET shorter == SeqsUpTo(S, n - 1)
         IN  shorter \cup {Append(s, x) : s \in shorter, x \in S}

-----------------------------------------------------------------------------
(* The execution context of one call: the state it reads and writes, and   *)
(* what it has done so far.  err # "none" is an exception on its way to    *)
(* the caller.                                                             *)

Enter(op, partition) ==
    [model |-> model, disk |-> disk, curfig |-> curfig,
     op |-> op, partition |-> partition,
     err |-> "none", errarg |-> "", ret |-> <<>>,
     wcalls |-> <<>>, writes |-> <<>>, figs |-> 0, libcalls |-> 0,
     logs |-> <<>>, invoked |-> <<>>, raised |-> <<>>, iter |-> 0]

\* raise e(arg); raised keeps every exception raised during the call
Raise(c, e, arg) ==
    [c EXCEPT !.err = e, !.errarg = arg,
              !.raised = Append(@, [err |-> e, arg |-> arg])]
Log(c, msg) == [c EXCEPT !.logs = Append(@, msg)]
LibCall(c) == [c EXCEPT !.libcalls = @ + 1]

\* a failure input of a call: library routine (stat) or save (io) number k
\* of routine r fails; k = 0 is no failure
NoFail == [routine |-> "none", k |-> 0, kind |-> "none"]
FailAt(fail, routine, i) ==
    IF fail.routine = routine /\ fail.k = i THEN fail.kind ELSE "none"

-----------------------------------------------------------------------------
(* matplotlib.pyplot: one implicit current figure.  plt.figure() opens a   *)
(* fresh one; every other call draws on the current one, opening it first  *)
(* when there is none.                                                     *)

plt_figure(c) ==
    [c EXCEPT !.curfig = [open |-> TRUE, artists |-> {}], !.figs = @ + 1]

plt_gcf(c) == IF c.curfig.open THEN c ELSE plt_figure(c)

plt_draw(c, artist) ==
    LET g == plt_gcf(c)
    IN  [g EXCEPT !.curfig.artists = @ \cup {artist}]

save_merging(c, lib, artists, path, io) ==
    IF io THEN Raise(c, "IOError", path)
    ELSE LET old == IF path \in DOMAIN c.disk THEN c.disk[path].artists ELSE {}
         IN  [c EXCEPT !.disk = (path :> [lib |-> lib, artists |-> artists \cup old]) @@ @,
                       !.writes = Append(@, path)]

\* a save primitive: the content replaces whatever the path held; a save
\* that cannot write (unwritable directory) raises and leaves the disk alone
save(c, lib, artists, path, io) ==
    IF io THEN Raise(c, "IOError", path)
    ELSE [c EXCEPT !.disk = (path :> [lib |-> lib, artists |-> artists]) @@ @,
                   !.writes = Append(@, path)]

-----------------------------------------------------------------------------
(* str.join *)

RECURSIVE join(_, _)
join(sep, parts) ==
    IF parts = <<>> THEN ""
    ELSE IF Len(parts) = 1 THEN parts[1]
    ELSE parts[1] \o sep \o join(sep, Tail(parts))

-----------------------------------------------------------------------------
(* get_partition_data *)

get_partition_data_swapped(m, partition) ==
    IF partition = "train"
    THEN [err |-> "none", X |-> m.X_train, y |-> m.y_train]
    ELSE IF partition = "test"
    THEN [err |-> "none", X |-> m.X_test, y |-> m.y_train]
    ELSE [err |-> "TypeError", X |-> "", y |-> ""]

get_partition_data(m, partition) ==
    IF partition = "train"
    THEN [err |-> "none", X |-> m.X_train, y |-> m.y_train]
    ELSE IF partition = "test"
    THEN [err |-> "none", X |-> m.X_test, y |-> m.y_test]
    ELSE [err |-> "TypeError", X |-> "", y |-> ""]

-----------------------------------------------------------------------------
(* write_plot *)

file_all_flat(base_dir, project, plot_type, tag) ==
    join(USEP, <<base_dir, project, plot_type, tag>>) \o ".png"

\* file_only and file_all
file_all(base_dir, project, plot_type, tag) ==
    LET file_only == join("", <<plot_type, USEP, tag, ".png">>)
    IN  join(SSEP, <<base_dir, project, file_only>>)

\* logger.info("Writing plot to %s", file_all): the call is on record
write_plot_entry(c, vizlib, plot, plot_type, tag, path) ==
    [c EXCEPT !.wcalls = Append(@,
        [vizlib |-> vizlib, plot |-> plot, plot_type |-> plot_type, tag |-> tag,
         path |-> path])]

\* plt.tight_layout(); plt.savefig(file_all)
plt_savefig(g, path, io) == save(g, "matplotlib", g.curfig.artists, path, io)

\* plot.savefig(file_all), plot.save(file_all)
plot_save(c, lib, plot, path, io) ==
    IF plot.none THEN Raise(c, "AttributeError", "NoneType")
    ELSE save(c, lib, plot.artists, path, io)

write_plot_save_plotly_saves(c, vizlib, plot, path, io) ==
    IF vizlib = "matplotlib" THEN plt_savefig(plt_gcf(c), path, io)
    ELSE IF vizlib \in {"seaborn", "bokeh", "plotly"} THEN plot_save(c, vizlib, plot, path, io)
    ELSE Raise(c, "ValueError", vizlib)

\* the if/elif chain over vizlib
write_plot_save(c, vizlib, plot, path, io) ==
    IF vizlib = "matplotlib" THEN plt_savefig(plt_gcf(c), path, io)
    ELSE IF vizlib = "seaborn" THEN plot_save(c, "seaborn", plot, path, io)
    ELSE IF vizlib = "bokeh" THEN plot_save(c, "bokeh", plot, path, io)
    ELSE IF vizlib = "plotly" THEN Raise(c, "ValueError", vizlib)
    ELSE Raise(c, "ValueError", vizlib)

write_plot_to(c, vizlib, plot, plot_type, tag, path, io) ==
    write_plot_save(write_plot_entry(c, vizlib, plot, plot_type, tag, path),
                    vizlib, plot, path, io)

write_plot(c, vizlib, plot, plot_type, tag, io) ==
    write_plot_to(c, vizlib, plot, plot_type, tag,
                  file_all(c.model.specs.base_dir, c.model.specs.project, plot_type, tag), io)

-----------------------------------------------------------------------------
(* The bodies of the per-algorithm loops.  f is the failure input of this  *)
(* iteration: "stat" (the library routine raises), "io" (the save raises)  *)
(* or "none".                                                              *)

\* plot_calibration: one curve and one histogram per algorithm, all on the
\* figure the routine opened; nothing is written inside the loop
calibration_body(c, partition, algo, f) ==
    LET clf == c.model.estimators[algo]
        c1 == IF clf.predict_proba
              THEN IF <<algo, partition>> \in DOMAIN c.model.probas
                   THEN c ELSE Raise(c, "KeyError", algo)
              ELSE LibCall(c)                       \* clf.decision_function(X)
    IN  IF c1.err # "none" THEN c1
        ELSE IF f = "stat" THEN Raise(LibCall(c1), "LibError", "calibration_curve")
        ELSE plt_draw(LibCall(c1), Artist("calibration", algo, partition))

\* the try block of plot_importance
importance_try(c, partition, algo, f) ==
    IF algo \notin DOMAIN c.model.importances THEN Raise(c, "KeyError", "importances")
    ELSE IF f = "stat" THEN Raise(LibCall(c), "IndexError", "argsort")
    ELSE LET c1 == plt_draw(plt_figure(LibCall(c)),
                            Artist("feature_importance", algo, partition))
             tag == join(USEP, <<partition, algo>>)
         IN  write_plot(c1, "matplotlib", None, "feature_importance", tag, f = "io")

importance_except_reraise(t, algo) == t

\* except: logger.info("%s does not have feature importances", algo)
importance_except(t, algo) ==
    IF t.err # "none"
    THEN Log([t EXCEPT !.err = "none", !.errarg = ""],
             algo \o " does not have feature importances")
    ELSE t

\* try: ... except: ...
importance_body(c, partition, algo, f) ==
    importance_except(importance_try(c, partition, algo, f), algo)

learning_body_tag_partition(c, partition, algo, f) ==
    LET c1 == plt_figure(c)
    IN  IF f = "stat" THEN Raise(LibCall(c1), "LibError", "learning_curve")
        ELSE write_plot(plt_draw(LibCall(c1), Artist("learning_curve", algo, partition)),
                        "matplotlib", None, "learning_curve", partition, f = "io")

learning_body(c, partition, algo, f) ==
    LET c1 == plt_figure(c)
    IN  IF f = "stat" THEN Raise(LibCall(c1), "LibError", "learning_curve")
        ELSE LET c2 == plt_draw(LibCall(c1), Artist("learning_curve", algo, partition))
                 tag == join(USEP, <<partition, algo>>)
             IN  write_plot(c2, "matplotlib", None, "learning_curve", tag, f = "io")

roc_body_shared_tag(c, partition, algo, f) ==
    LET c1 == plt_figure(c)
        c2 == [LibCall(c1) EXCEPT !.model.estimators[algo].fitted = "fold_" \o partition]
    IN  IF ~c2.model.estimators[algo].predict_proba
        THEN Raise(c2, "AttributeError", "predict_proba")
        ELSE IF f = "stat" THEN Raise(LibCall(c2), "LibError", "roc_curve")
        ELSE write_plot(plt_draw(LibCall(c2), Artist("roc_curve", algo, partition)),
                        "matplotlib", None, "roc_curve", partition, f = "io")

\* every fold refits the estimator the model holds: estimator.fit(X[train], y[train])
roc_body(c, partition, algo, f) ==
    LET c1 == plt_figure(c)
        c2 == [LibCall(c1) EXCEPT !.model.estimators[algo].fitted = "fold_" \o partition]
    IN  IF ~c2.model.estimators[algo].predict_proba
        THEN Raise(c2, "AttributeError", "predict_proba")
        ELSE IF f = "stat" THEN Raise(LibCall(c2), "LibError", "roc_curve")
        ELSE LET c3 == plt_draw(LibCall(c2), Artist("roc_curve", algo, partition))
                 tag == join(USEP, <<partition, algo>>)
             IN  write_plot(c3, "matplotlib", None, "roc_curve", tag, f = "io")

confusion_body(c, partition, algo, f) ==
    IF <<algo, partition>> \notin DOMAIN c.model.preds THEN Raise(c, "KeyError", algo)
    ELSE IF f = "stat" THEN Raise(LibCall(c), "LibError", "confusion_matrix")
    ELSE LET c1 == plt_draw(plt_figure(LibCall(c)), Artist("confusion", algo, partition))
             tag == join(USEP, <<partition, algo>>)
         IN  write_plot(c1, "matplotlib", None, "confusion", tag, f = "io")

\* no plt.figure() here: the curves go on whatever figure is current
validation_body(c, partition, algo, f) ==
    IF f = "stat" THEN Raise(LibCall(c), "LibError", "validation_curve")
    ELSE LET c1 == plt_draw(LibCall(c), Artist("validation_curve", algo, partition))
             tag == join(USEP, <<partition, algo>>)
         IN  write_plot(c1, "matplotlib", None, "validation_curve", tag, f = "io")

Body(routine, c, partition, algo, f) ==
    CASE routine = "plot_calibration" -> calibration_body(c, partition, algo, f)
      [] routine = "plot_importance" -> importance_body(c, partition, algo, f)
      [] routine = "plot_learning_curve" -> learning_body(c, partition, algo, f)
      [] routine = "plot_roc_curve" -> roc_body(c, partition, algo, f)
      [] routine = "plot_confusion_matrix" -> confusion_body(c, partition, algo, f)
      [] routine = "plot_validation_curve" -> validation_body(c, partition, algo, f)

\* the loop reaches position i of algolist; iter keeps the last position reached
At(c, i) == [c EXCEPT !.iter = i]

Pending(c, b) ==
    IF c.err # "none" THEN [b EXCEPT !.err = c.err, !.errarg = c.errarg] ELSE b

RECURSIVE for_algo_keep_going(_, _, _, _, _)
for_algo_keep_going(routine, c, partition, i, fail) ==
    IF i > Len(c.model.algolist) THEN c
    ELSE for_algo_keep_going(routine,
             Pending(c, Body(routine, [c EXCEPT !.err = "none", !.iter = i], partition,
                             c.model.algolist[i], FailAt(fail, routine, i))),
             partition, i + 1, fail)

\* for algo in model.algolist: an exception leaving the body ends the loop
RECURSIVE for_algo(_, _, _, _, _)
for_algo(routine, c, partition, i, fail) ==
    IF i > Len(c.model.algolist) \/ c.err # "none" THEN c
    ELSE for_algo(routine,
                  Body(routine, At(c, i), partition, c.model.algolist[i],
                       FailAt(fail, routine, i)),
                  partition, i + 1, fail)

-----------------------------------------------------------------------------
(* The plot routines *)

Invoke(c, routine) == [c EXCEPT !.invoked = Append(@, routine)]

Resolve_lenient(c, partition) == c

\* X, y = get_partition_data(model, partition)
Resolve(c, partition) ==
    LET d == get_partition_data(c.model, partition)
    IN  IF d.err # "none" THEN Raise(c, d.err, partition) ELSE c

\* after the loop: labels, legends and the one write_plot of the routine
calibration_write(c, partition, fail) ==
    IF c.err # "none" THEN c
    ELSE write_plot(c, "matplotlib", None, "calibration", partition,
                    FailAt(fail, "plot_calibration", 1) = "io")

\* plt.figure, the two axes, the reference line, then the loop
calibration_plot(c, partition, fail) ==
    IF c.err # "none" THEN c
    ELSE calibration_write(
            for_algo("plot_calibration",
                     plt_draw(plt_figure(c), Artist("calibration_ref", "", partition)),
                     partition, 1, fail),
            partition, fail)

calibration_gate_open(c, partition, fail) ==
    calibration_plot(Resolve(c, partition), partition, fail)

\* for classification only
calibration_gate(c, partition, fail) ==
    IF c.model.specs.model_type # classification
    THEN Log(c, "Calibration plot is for classification only")
    ELSE calibration_plot(Resolve(c, partition), partition, fail)

plot_calibration(c0, partition, fail) ==
    calibration_gate(Invoke(c0, "plot_calibration"), partition, fail)

plot_importance(c0, partition, fail) ==
    LET c == Resolve(Invoke(c0, "plot_importance"), partition)
    IN  IF c.err # "none" THEN c
        ELSE for_algo("plot_importance", c, partition, 1, fail)

plot_learning_curve(c0, partition, fail) ==
    LET c == Resolve(Invoke(c0, "plot_learning_curve"), partition)
    IN  IF c.err # "none" THEN c
        ELSE for_algo("plot_learning_curve", c, partition, 1, fail)

plot_roc_curve(c0, partition, fail) ==
    LET c == Invoke(c0, "plot_roc_curve")
    IN  IF c.model.specs.model_type # classification
        THEN Log(c, "ROC Curves are for classification only")
        ELSE LET c1 == Resolve(c, partition)
             IN  IF c1.err # "none" THEN c1
                 ELSE for_algo("plot_roc_curve", c1, partition, 1, fail)

plot_confusion_matrix(c0, partition, fail) ==
    LET c == Resolve(Invoke(c0, "plot_confusion_matrix"), partition)
    IN  IF c.err # "none" THEN c
        ELSE for_algo("plot_confusion_matrix", c, partition, 1, fail)

plot_validation_curve(c0, partition, fail) ==
    LET c == Resolve(Invoke(c0, "plot_validation_curve"), partition)
    IN  IF c.err # "none" THEN c
        ELSE for_algo("plot_validation_curve", c, partition, 1, fail)

\* fetch_california_housing is defined nowhere
plot_partial_dependence(c0, partition) ==
    LET c == Resolve(Invoke(c0, "plot_partial_dependence"), partition)
    IN  IF c.err # "none" THEN c
        ELSE Raise(c, "NameError", "fetch_california_housing")

\* classifiers is defined nowhere
plot_boundary(c0, partition) ==
    LET c == Invoke(c0, "plot_boundary")
    IN  IF c.model.specs.model_type # classification
        THEN Log(c, "Boundary Plots are for classification only")
        ELSE LET c1 == Resolve(c, partition)
             IN  IF c1.err # "none" THEN c1
                 ELSE Raise(c1, "NameError", "classifiers")

\* seaborn routines that build their own grid (pairplot, FacetGrid)
eda_grid(c0, routine, plot_type, tag, f) ==
    LET c == Invoke(c0, routine)
    IN  IF f = "stat" THEN Raise(LibCall(c), "LibError", routine)
        ELSE LET c1 == plt_draw(plt_figure(LibCall(c)), Artist(plot_type, "", tag))
             IN  write_plot(c1, "seaborn", Handle(c1.curfig.artists), plot_type, tag, f = "io")

\* seaborn routines that draw on the current axes and save their figure
\* (distplot, boxplot, swarmplot, tsplot; get_figure())
eda_axes(c0, routine, plot_type, tag, f) ==
    LET c == Invoke(c0, routine)
    IN  IF f = "stat" THEN Raise(LibCall(c), "LibError", routine)
        ELSE LET c1 == plt_draw(LibCall(c), Artist(plot_type, "", tag))
             IN  write_plot(c1, "seaborn", Handle(c1.curfig.artists), plot_type, tag, f = "io")

plot_scatter(c, tag, f) == eda_grid(c, "plot_scatter", "scatter_plot", tag, f)
plot_facet_grid(c, tag, f) == eda_grid(c, "plot_facet_grid", "facet_grid", tag, f)
plot_distribution(c, tag, f) == eda_axes(c, "plot_distribution", "distribution_plot", tag, f)
plot_box(c, tag, f) == eda_axes(c, "plot_box", "box_plot", tag, f)
plot_swarm(c, tag, f) == eda_axes(c, "plot_swarm", "swarm_plot", tag, f)
plot_time_series(c, tag, f) == eda_axes(c, "plot_time_series", "time_series_plot", tag, f)

\* a bokeh figure, saved when a model is given and shown otherwise
plot_candlestick(c0, symbol, with_model, f) ==
    LET c == Invoke(c0, "plot_candlestick")
    IN  IF f = "stat" THEN Raise(LibCall(c), "LibError", "plot_candlestick")
        ELSE IF with_model
        THEN write_plot(LibCall(c), "bokeh", Handle({Artist("candlestick_chart", "", symbol)}),
                        "candlestick_chart", symbol, f = "io")
        ELSE LibCall(c)

-----------------------------------------------------------------------------
(* generate_plots *)

\* if calibration_plot: plot_calibration(model, partition)
gen_calibration(c, partition, fail) ==
    IF c.err = "none" /\ c.model.specs.calibration_plot
    THEN plot_calibration(c, partition, fail) ELSE c

\* if confusion_matrix: plot_confusion_matrix(model, partition)
gen_confusion_matrix(c, partition, fail) ==
    IF c.err = "none" /\ c.model.specs.confusion_matrix
    THEN plot_confusion_matrix(c, partition, fail) ELSE c

\* if roc_curve: plot_roc_curve(model, partition)
gen_roc_curve(c, partition, fail) ==
    IF c.err = "none" /\ c.model.specs.roc_curve
    THEN plot_roc_curve(c, partition, fail) ELSE c

gen_importance_any_partition(c, partition, fail) ==
    IF c.err = "none" /\ c.model.specs.importances
    THEN plot_importance(c, partition, fail) ELSE c

\* if partition == 'train': if importances: plot_importance(model, partition)
gen_importance(c, partition, fail) ==
    IF c.err = "none" /\ partition = "train" /\ c.model.specs.importances
    THEN plot_importance(c, partition, fail) ELSE c

\* if partition == 'train': if learning_curve: plot_learning_curve(model, partition)
gen_learning_curve(c, partition, fail) ==
    IF c.err = "none" /\ partition = "train" /\ c.model.specs.learning_curve
    THEN plot_learning_curve(c, partition, fail) ELSE c

generate_plots(c, partition, fail) ==
    gen_learning_curve(
        gen_importance(
            gen_roc_curve(
                gen_confusion_matrix(
                    gen_calibration(c, partition, fail),
                    partition, fail),
                partition, fail),
            partition, fail),
        partition, fail)

-----------------------------------------------------------------------------
(* The model container, as the caller built it *)

SpecsOf(mt, flags, b, p) ==
    [model_type |-> mt,
     calibration_plot |-> "calibration_plot" \in flags,
     confusion_matrix |-> "confusion_matrix" \in flags,
     importances |-> "importances" \in flags,
     learning_curve |-> "learning_curve" \in flags,
     roc_curve |-> "roc_curve" \in flags,
     base_dir |-> b, project |-> p]

ModelOf(specs, al, pp, imp) ==
    [specs |-> specs,
     algolist |-> al,
     estimators |-> [a \in Algos |-> [fitted |-> "full", predict_proba |-> a \in pp]],
     preds |-> [k \in Algos \X {"train", "test"} |-> "preds"],
     probas |-> [k \in Algos \X {"train", "test"} |-> "probas"],
     importances |-> [a \in imp |-> "importances"],
     X_train |-> "X_train", y_train |-> "y_train",
     X_test |-> "X_test", y_test |-> "y_test"]

\* which estimators have predict_proba, which algorithms have importances,
\* and where the output goes
Profiles ==
    {[pp |-> Algos, imp |-> Algos, base_dir |-> "/tmp/out"],
     [pp |-> {"rf"}, imp |-> {"svm"}, base_dir |-> "out"]}

DefaultAlgolist == <<"rf">>

\* every algorithm list with every profile and all plots switched on, and
\* every combination of plot flags with the default list
Models ==
    {ModelOf(SpecsOf(mt, PlotFlags, pr.base_dir, p), al, pr.pp, pr.imp) :
        mt \in ModelTypes, p \in Projects,
        al \in SeqsUpTo(Algos, MaxAlgos), pr \in Profiles}
    \cup
    {ModelOf(SpecsOf(mt, flags, "/tmp/out", p), DefaultAlgolist, Algos, Algos) :
        mt \in ModelTypes, p \in Projects, flags \in SUBSET PlotFlags}

\* the plot argument of a direct write_plot call
Plots == {None, Handle({Artist("user", "", "")}), Handle({Artist("user", "", "again")})}

Fails(routines) ==
    {NoFail} \cup
    [routine : routines, k : 1..MaxAlgos, kind : {"stat", "io"}]

CallFail == {"none", "stat", "io"}

-----------------------------------------------------------------------------
(* Calls *)

\* the caller gets the result; the state keeps what the call changed
Return(c) ==
    /\ model' = c.model
    /\ disk' = c.disk
    /\ curfig' = c.curfig
    /\ call' = [op |-> c.op, partition |-> c.partition,
                err |-> c.err, errarg |-> c.errarg, ret |-> c.ret,
                wcalls |-> c.wcalls, writes |-> c.writes, figs |-> c.figs,
                libcalls |-> c.libcalls, logs |-> c.logs, invoked |-> c.invoked,
                raised |-> c.raised, iter |-> c.iter, before |-> disk]
    /\ ncalls' = ncalls + 1

Init ==
    /\ model \in Models
    /\ disk = <<>>
    /\ curfig = NoFigure
    /\ call = [op |-> "none", partition |-> "", err |-> "none", errarg |-> "",
               ret |-> <<>>, wcalls |-> <<>>, writes |-> <<>>, figs |-> 0,
               libcalls |-> 0, logs |-> <<>>, invoked |-> <<>>, raised |-> <<>>,
               iter |-> 0, before |-> <<>>]
    /\ ncalls = 0

GetPartitionData ==
    /\ ncalls < MaxCalls
    /\ \E partition \in Partitions :
        LET c == Enter("get_partition_data", partition)
            d == get_partition_data(c.model, partition)
        IN  Return(IF d.err # "none" THEN Raise(c, d.err, partition)
                   ELSE [c EXCEPT !.ret = <<d.X, d.y>>])

WritePlot ==
    /\ ncalls < MaxCalls
    /\ \E vizlib \in Vizlibs, plot \in Plots,
          pt \in {<<"roc_curve", "train_svm">>, <<"custom", "eda">>}, io \in BOOLEAN :
        Return(write_plot(Enter("write_plot", ""), vizlib, plot, pt[1], pt[2], io))

GeneratePlots ==
    /\ ncalls < MaxCalls
    /\ \E partition \in Partitions,
          fail \in Fails({"plot_calibration", "plot_confusion_matrix", "plot_roc_curve",
                          "plot_importance", "plot_learning_curve"}) :
        Return(generate_plots(Enter("generate_plots", partition), partition, fail))

PlotCalibration ==
    /\ ncalls < MaxCalls
    /\ \E partition \in Partitions, fail \in Fails({"plot_calibration"}) :
        Return(plot_calibration(Enter("plot_calibration", partition), partition, fail))

PlotImportance ==
    /\ ncalls < MaxCalls
    /\ \E partition \in Partitions, fail \in Fails({"plot_importance"}) :
        Return(plot_importance(Enter("plot_importance", partition), partition, fail))

PlotLearningCurve ==
    /\ ncalls < MaxCalls
    /\ \E partition \in Partitions, fail \in Fails({"plot_learning_curve"}) :
        Return(plot_learning_curve(Enter("plot_learning_curve", partition), partition, fail))

PlotRocCurve ==
    /\ ncalls < MaxCalls
    /\ \E partition \in Partitions, fail \in Fails({"plot_roc_curve"}) :
        Return(plot_roc_curve(Enter("plot_roc_curve", partition), partition, fail))

PlotConfusionMatrix ==
    /\ ncalls < MaxCalls
    /\ \E partition \in Partitions, fail \in Fails({"plot_confusion_matrix"}) :
        Return(plot_confusion_matrix(Enter("plot_confusion_matrix", partition), partition, fail))

PlotValidationCurve ==
    /\ ncalls < MaxCalls
    /\ \E partition \in Partitions, fail \in Fails({"plot_validation_curve"}) :
        Return(plot_validation_curve(Enter("plot_validation_curve", partition), partition, fail))

PlotPartialDependence ==
    /\ ncalls < MaxCalls
    /\ \E partition \in Partitions :
        Return(plot_partial_dependence(Enter("plot_partial_dependence", partition), partition))

PlotBoundary ==
    /\ ncalls < MaxCalls
    /\ \E partition \in Partitions :
        Return(plot_boundary(Enter("plot_boundary", partition), partition))

PlotScatter ==
    /\ ncalls < MaxCalls
    /\ \E f \in CallFail : Return(plot_scatter(Enter("plot_scatter", ""), "eda", f))

PlotFacetGrid ==
    /\ ncalls < MaxCalls
    /\ \E f \in CallFail : Return(plot_facet_grid(Enter("plot_facet_grid", ""), "eda", f))

PlotDistribution ==
    /\ ncalls < MaxCalls
    /\ \E f \in CallFail : Return(plot_distribution(Enter("plot_distribution", ""), "eda", f))

PlotBox ==
    /\ ncalls < MaxCalls
    /\ \E f \in CallFail : Return(plot_box(Enter("plot_box", ""), "eda", f))

PlotSwarm ==
    /\ ncalls < MaxCalls
    /\ \E f \in CallFail : Return(plot_swarm(Enter("plot_swarm", ""), "eda", f))

PlotTimeSeries ==
    /\ ncalls < MaxCalls
    /\ \E f \in CallFail : Return(plot_time_series(Enter("plot_time_series", ""), "eda", f))

PlotCandlestick ==
    /\ ncalls < MaxCalls
    /\ \E with_model \in BOOLEAN, f \in CallFail :
        Return(plot_candlestick(Enter("plot_candlestick", ""), "aapl", with_model, f))

Next ==
    \/ GetPartitionData
    \/ WritePlot
    \/ GeneratePlots
    \/ PlotCalibration
    \/ PlotImportance
    \/ PlotLearningCurve
    \/ PlotRocCurve
    \/ PlotConfusionMatrix
    \/ PlotValidationCurve
    \/ PlotPartialDependence
    \/ PlotBoundary
    \/ PlotScatter
    \/ PlotFacetGrid
    \/ PlotDistribution
    \/ PlotBox
    \/ PlotSwarm
    \/ PlotTimeSeries
    \/ PlotCandlestick

Spec == Init /\ [][Next]_vars

-----------------------------------------------------------------------------
(* Properties *)

Valid == {"train", "test"}
Supported == {"matplotlib", "seaborn", "bokeh"}

\* the output path, written out: base_dir/project/<category>_<tag>.png
PathOf(m, category, tag) ==
    m.specs.base_dir \o "/" \o m.specs.project \o "/" \o category \o "_" \o tag \o ".png"

Range(s) == {s[i] : i \in DOMAIN s}

\* C1: write_plot with a backend other than matplotlib, seaborn and bokeh
\* (plotly included) fails with a ValueError that carries the backend value,
\* saves nothing and leaves the files on disk as they were.
C1_UnsupportedBackendFails ==
    (call.op = "write_plot" /\ call.wcalls[1].vizlib \notin Supported) =>
        /\ call.err = "ValueError"
        /\ call.errarg = call.wcalls[1].vizlib
        /\ call.writes = <<>>
        /\ disk = call.before

C1_Witness ==
    /\ call.op = "write_plot"
    /\ call.wcalls[1].vizlib = "plotly"
    /\ call.err = "ValueError"
    /\ call.errarg = "plotly"
    /\ DOMAIN call.before # {}
    /\ disk = call.before

\* C2: whenever write_plot saves, with any of the three supported backends
\* and any plot handle, the path saved to is base_dir/project/category_tag.png
\* of the model's base_dir and project and the call's category and tag, and
\* that file then exists; no routine ever saves to a path of another form.
C2_PathDeterminism ==
    /\ (call.op = "write_plot" /\ call.err = "none") =>
          /\ call.writes = <<PathOf(model, call.wcalls[1].plot_type, call.wcalls[1].tag)>>
          /\ DOMAIN disk = DOMAIN call.before \cup Range(call.writes)
    /\ Range(call.writes) \subseteq
          {PathOf(model, call.wcalls[i].plot_type, call.wcalls[i].tag) : i \in DOMAIN call.wcalls}

C2_Witness ==
    /\ call.op = "write_plot"
    /\ call.err = "none"
    /\ call.wcalls[1].vizlib = "bokeh"
    /\ model.specs.base_dir = "/tmp/out"
    /\ call.writes = <<"/tmp/out/proj1/roc_curve_train_svm.png">>
    /\ "/tmp/out/proj1/roc_curve_train_svm.png" \in DOMAIN disk

\* C3: get_partition_data returns (X_train, y_train) for 'train' and
\* (X_test, y_test) for 'test'; for any other partition it raises the
\* invalid-partition error and returns nothing.
C3_PartitionData ==
    call.op = "get_partition_data" =>
        /\ call.partition = "train" =>
              call.err = "none" /\ call.ret = <<model.X_train, model.y_train>>
        /\ call.partition = "test" =>
              call.err = "none" /\ call.ret = <<model.X_test, model.y_test>>
        /\ call.partition \notin Valid =>
              call.err = "TypeError" /\ call.ret = <<>>

C3_Witness ==
    /\ call.op = "get_partition_data"
    /\ call.partition = "test"
    /\ call.ret = <<"X_test", "y_test">>

\* C4: on a model that is not a classification model, plot_calibration,
\* plot_roc_curve and plot_boundary return normally for every partition
\* argument and every algolist, having created no figure, called no estimator
\* or statistical routine and not invoked write_plot; no file is written.
C4_GatedNoOp ==
    (/\ call.op \in {"plot_calibration", "plot_roc_curve", "plot_boundary"}
     /\ model.specs.model_type # "classification") =>
        /\ call.err = "none"
        /\ call.figs = 0
        /\ call.libcalls = 0
        /\ call.wcalls = <<>>
        /\ call.writes = <<>>
        /\ disk = call.before

C4_Witness ==
    /\ call.op = "plot_calibration"
    /\ call.partition = "valid"
    /\ model.specs.model_type = "regression"
    /\ Len(model.algolist) = 2
    /\ call.err = "none"
    /\ call.logs # <<>>
    /\ call.wcalls = <<>>

\* C5: on a classification model and a valid partition p, a plot_roc_curve
\* that returns normally has written one file per entry of algolist, in
\* algolist order, the file of algorithm a being
\* base_dir/project/roc_curve_<p>_<a>.png, and has written no other file.
C5_RocOneFilePerAlgo ==
    (/\ call.op = "plot_roc_curve"
     /\ model.specs.model_type = "classification"
     /\ call.partition \in Valid
     /\ call.err = "none") =>
        /\ Len(call.writes) = Len(model.algolist)
        /\ call.writes =
              [i \in 1..Len(model.algolist) |->
                  PathOf(model, "roc_curve", call.partition \o "_" \o model.algolist[i])]
        /\ DOMAIN disk = DOMAIN call.before \cup Range(call.writes)

C5_Witness ==
    /\ call.op = "plot_roc_curve"
    /\ call.partition = "test"
    /\ call.err = "none"
    /\ model.algolist = <<"svm", "rf">>
    /\ call.writes = <<"/tmp/out/proj1/roc_curve_test_svm.png",
                       "/tmp/out/proj1/roc_curve_test_rf.png">>
    /\ Cardinality(DOMAIN disk \ DOMAIN call.before) = 2

\* the positions of algolist whose algorithm has (has no) feature importances
WithImportances(m) == {i \in 1..Len(m.algolist) : m.algolist[i] \in DOMAIN m.importances}
WithoutImportances(m) == (1..Len(m.algolist)) \ WithImportances(m)

ImportancePath(m, partition, i) ==
    PathOf(m, "feature_importance", partition \o "_" \o m.algolist[i])

SkipLog(algo) == algo \o " does not have feature importances"

\* C6: plot_importance on a valid partition never raises; an algorithm of
\* algolist without an entry in model.importances is skipped with a log entry
\* and no feature_importance file is written for it; and when nothing else
\* was skipped, every algorithm that has importances, before or after the
\* missing ones, gets its file feature_importance_<partition>_<algo>.png.
C6_MissingImportancesSkipped ==
    (call.op = "plot_importance" /\ call.partition \in Valid) =>
        /\ call.err = "none"
        /\ \A i \in WithoutImportances(model) :
              /\ SkipLog(model.algolist[i]) \in Range(call.logs)
              /\ ImportancePath(model, call.partition, i) \notin Range(call.writes)
        /\ Len(call.logs) = Cardinality(WithoutImportances(model)) =>
              \A i \in WithImportances(model) :
                  /\ ImportancePath(model, call.partition, i) \in Range(call.writes)
                  /\ ImportancePath(model, call.partition, i) \in DOMAIN disk

C6_Witness ==
    /\ call.op = "plot_importance"
    /\ call.partition = "train"
    /\ model.algolist = <<"rf", "svm">>
    /\ DOMAIN model.importances = {"svm"}
    /\ call.err = "none"
    /\ call.logs = <<"rf does not have feature importances">>
    /\ call.writes = <<"out/proj1/feature_importance_train_svm.png">>

\* the exception raised for an algorithm without feature importances
IsAbsence(r) == r.err = "KeyError" /\ r.arg = "importances"

\* C7: every exception raised inside a routine, other than the absence of
\* an algorithm's feature importances, reaches the caller of the routine:
\* it is the exception the call ends with.
C7_OnlyAbsenceRecovered ==
    \A i \in DOMAIN call.raised :
        ~IsAbsence(call.raised[i]) =>
            /\ i = Len(call.raised)
            /\ call.err = call.raised[i].err

\* C8: every call leaves the model container as it found it: specs,
\* algolist, estimators and their fitted state, preds, probas, importances
\* and the train and test pairs.
C8_ModelReadOnly == [][model' = model]_vars

PartitionOps ==
    {"generate_plots", "plot_calibration", "plot_importance", "plot_learning_curve",
     "plot_roc_curve", "plot_confusion_matrix", "plot_validation_curve",
     "plot_partial_dependence", "plot_boundary"}

NothingDone ==
    /\ call.figs = 0
    /\ call.libcalls = 0
    /\ call.wcalls = <<>>
    /\ call.writes = <<>>
    /\ disk = call.before

\* C9 as stated: every operation that takes a partition, called with a value
\* other than 'train' or 'test', raises the invalid-partition error, whatever
\* the model, before anything is rendered, computed or written.
C9_InvalidPartitionAlwaysFails ==
    (call.op \in PartitionOps /\ call.partition \notin Valid) =>
        call.err = "TypeError" /\ NothingDone

\* whether a call of op on model m gets as far as resolving the partition
ResolvesPartition(op, m) ==
    IF op \in {"plot_calibration", "plot_roc_curve", "plot_boundary"}
    THEN m.specs.model_type = "classification"
    ELSE IF op = "generate_plots"
    THEN \/ m.specs.confusion_matrix
         \/ /\ m.specs.model_type = "classification"
            /\ m.specs.calibration_plot \/ m.specs.roc_curve
    ELSE TRUE

\* C9 amended: with a partition other than 'train' or 'test',
\* plot_importance, plot_learning_curve, plot_confusion_matrix,
\* plot_validation_curve and plot_partial_dependence always raise the
\* invalid-partition error; plot_calibration, plot_roc_curve and
\* plot_boundary raise it on a classification model and return normally
\* otherwise; generate_plots raises it when the confusion_matrix flag is set,
\* or the calibration_plot or roc_curve flag is set on a classification
\* model, and returns normally otherwise.  In every case nothing has been
\* rendered, computed or written.
C9_InvalidPartitionWhenResolved ==
    (call.op \in PartitionOps /\ call.partition \notin Valid) =>
        /\ ResolvesPartition(call.op, model) =>
              call.err = "TypeError" /\ call.errarg = call.partition
        /\ ~ResolvesPartition(call.op, model) => call.err = "none"
        /\ NothingDone

C9_Witness ==
    /\ call.op = "generate_plots"
    /\ call.partition = "valid"
    /\ model.specs.model_type = "regression"
    /\ call.invoked = <<"plot_calibration", "plot_confusion_matrix">>
    /\ call.err = "TypeError"
    /\ NothingDone

Category(op) ==
    CASE op = "plot_calibration" -> "calibration"
      [] op = "plot_importance" -> "feature_importance"
      [] op = "plot_learning_curve" -> "learning_curve"
      [] op = "plot_roc_curve" -> "roc_curve"
      [] op = "plot_confusion_matrix" -> "confusion"
      [] op = "plot_validation_curve" -> "validation_curve"

\* a per-algorithm routine ran to its end and skipped no algorithm
RanThrough ==
    /\ call.partition \in Valid
    /\ call.err = "none"
    /\ call.op \in {"plot_calibration", "plot_roc_curve"} =>
          model.specs.model_type = "classification"
    /\ call.op = "plot_importance" => call.logs = <<>>

\* the backend, category and tag of every write_plot call, in call order
Delegations ==
    [i \in DOMAIN call.wcalls |->
        [vizlib |-> call.wcalls[i].vizlib, plot_type |-> call.wcalls[i].plot_type,
         tag |-> call.wcalls[i].tag]]

\* write_plot once per algorithm of algolist, in algolist order, with the
\* tag partition USEP algorithm
WritesPerAlgorithm ==
    Delegations =
        [i \in 1..Len(model.algolist) |->
            [vizlib |-> "matplotlib", plot_type |-> Category(call.op),
             tag |-> call.partition \o USEP \o model.algolist[i]]]

\* C10 as stated: each of the six model plot routines calls write_plot once
\* for each algorithm of algolist, with the tag partition_algorithm.
C10_AllSixPerAlgorithm ==
    (/\ call.op \in {"plot_calibration", "plot_importance", "plot_learning_curve",
                     "plot_roc_curve", "plot_confusion_matrix", "plot_validation_curve"}
     /\ RanThrough) => WritesPerAlgorithm

\* C10 amended: feature importance, learning curve, ROC curve, confusion
\* matrix and validation curve, when they run to their end without skipping
\* an algorithm, call write_plot once for each algorithm of algolist with the
\* tag partition USEP algorithm; plot_calibration draws every algorithm on
\* one figure and calls write_plot once, after the loop, with the tag
\* partition, so that it writes a single file for the whole algolist.
C10_PerAlgorithmExceptCalibration ==
    /\ (/\ call.op \in {"plot_importance", "plot_learning_curve", "plot_roc_curve",
                        "plot_confusion_matrix", "plot_validation_curve"}
        /\ RanThrough) => WritesPerAlgorithm
    /\ (call.op = "plot_calibration" /\ RanThrough) =>
          /\ Delegations = <<[vizlib |-> "matplotlib", plot_type |-> "calibration",
                              tag |-> call.partition]>>
          /\ call.writes = <<call.wcalls[1].path>>
          /\ {a.algo : a \in disk[call.wcalls[1].path].artists} =
                {""} \cup Range(model.algolist)

C10_Witness ==
    /\ call.op = "plot_calibration"
    /\ call.partition = "test"
    /\ model.algolist = <<"svm", "rf">>
    /\ call.err = "none"
    /\ call.writes = <<"/tmp/out/proj1/calibration_test.png">>
    /\ {a.algo : a \in disk["/tmp/out/proj1/calibration_test.png"].artists} = {"", "svm", "rf"}

\* what a write_plot call hands to the save primitive: the current figure
\* for matplotlib, the plot handle for seaborn and bokeh
ContentOf(w) ==
    IF w.vizlib = "matplotlib" THEN [lib |-> "matplotlib", artists |-> curfig.artists]
    ELSE [lib |-> w.vizlib, artists |-> w.plot.artists]

\* C11: a write_plot that saves to a path that already holds a file (as a
\* second call with the same base_dir, project, category and tag does)
\* creates no file: the path holds the content of this call only, nothing
\* of the earlier content, and every other file is as it was.
C11_LastWriteWins ==
    (/\ call.op = "write_plot"
     /\ call.err = "none"
     /\ call.wcalls[1].path \in DOMAIN call.before) =>
        /\ DOMAIN disk = DOMAIN call.before
        /\ disk[call.wcalls[1].path] = ContentOf(call.wcalls[1])
        /\ \A q \in DOMAIN disk \ {call.wcalls[1].path} : disk[q] = call.before[q]

\* two write_plot calls on /tmp/out/proj1/custom_eda.png, a path no plot
\* routine writes, the second with another plot
C11_Witness ==
    /\ call.op = "write_plot"
    /\ call.err = "none"
    /\ ncalls = 2
    /\ call.wcalls[1].path = "/tmp/out/proj1/custom_eda.png"
    /\ DOMAIN call.before = {"/tmp/out/proj1/custom_eda.png"}
    /\ DOMAIN disk = {"/tmp/out/proj1/custom_eda.png"}
    /\ call.before["/tmp/out/proj1/custom_eda.png"] =
          [lib |-> "seaborn", artists |-> {Artist("user", "", "")}]
    /\ disk["/tmp/out/proj1/custom_eda.png"] =
          [lib |-> "seaborn", artists |-> {Artist("user", "", "again")}]

\* the five routines of generate_plots, in the order of its if statements
Routines == <<"plot_calibration", "plot_confusion_matrix", "plot_roc_curve",
              "plot_importance", "plot_learning_curve">>

\* the flag of each routine switched on, and the partition "train" for the
\* last two
Due(m, partition, r) ==
    CASE r = "plot_calibration" -> m.specs.calibration_plot
      [] r = "plot_confusion_matrix" -> m.specs.confusion_matrix
      [] r = "plot_roc_curve" -> m.specs.roc_curve
      [] r = "plot_importance" -> m.specs.importances /\ partition = "train"
      [] r = "plot_learning_curve" -> m.specs.learning_curve /\ partition = "train"

DueNow(r) == Due(model, call.partition, r)
Expected == SelectSeq(Routines, DueNow)

IsPrefix(s, t) == Len(s) <= Len(t) /\ \A i \in 1..Len(s) : s[i] = t[i]

\* C12: generate_plots invokes the routines whose flag is on, importance
\* and learning curve for the partition "train" only, in the order
\* calibration, confusion matrix, ROC curve, importance, learning curve: a
\* call that returns has invoked exactly those, a call that ends in an
\* exception has invoked them up to the routine that raised, and with the
\* five flags off nothing is invoked and no file is written.
C12_GatedInOrder ==
    call.op = "generate_plots" =>
        /\ IsPrefix(call.invoked, Expected)
        /\ call.err = "none" => call.invoked = Expected
        /\ call.err # "none" => call.invoked # <<>>
        /\ Expected = <<>> =>
              /\ call.err = "none"
              /\ call.wcalls = <<>>
              /\ call.writes = <<>>
              /\ disk = call.before

\* all flags on and the partition "test": the first three routines only
C12_Witness ==
    /\ call.op = "generate_plots"
    /\ call.partition = "test"
    /\ call.err = "none"
    /\ \A r \in Range(Routines) : Due(model, "train", r)
    /\ call.invoked = <<"plot_calibration", "plot_confusion_matrix", "plot_roc_curve">>
    /\ Len(call.writes) = 1 + 2 * Len(model.algolist)

\* the routines whose loop saves one figure per algorithm and lets every
\* exception out
LoopRoutines ==
    {"plot_learning_curve", "plot_roc_curve", "plot_confusion_matrix",
     "plot_validation_curve"}

\* the file of position i of algolist in the call just made
FileOf(i) ==
    PathOf(model, Category(call.op), call.partition \o "_" \o model.algolist[i])

\* C13: learning curve, ROC curve, confusion matrix and validation curve
\* take the algorithms in algolist order and save the file of one before
\* they start on the next: when the processing of position k of algolist
\* raises, that exception is the only one, it reaches the caller, and the
\* files saved by the call are exactly those of the positions before k, in
\* order; a loop that raises nowhere ends on the last position with the
\* files of all positions saved.
C13_FilesBeforeFailure ==
    (call.op \in LoopRoutines /\ call.iter > 0) =>
        /\ call.iter \in 1..Len(model.algolist)
        /\ call.raised # <<>> =>
              /\ Len(call.raised) = 1
              /\ call.err = call.raised[1].err
              /\ call.err # "none"
              /\ call.writes = [i \in 1..(call.iter - 1) |-> FileOf(i)]
        /\ call.raised = <<>> =>
              /\ call.err = "none"
              /\ call.iter = Len(model.algolist)
              /\ call.writes = [i \in 1..Len(model.algolist) |-> FileOf(i)]
        /\ DOMAIN disk = DOMAIN call.before \cup Range(call.writes)
        /\ \A i \in 1..Len(call.writes) : call.wcalls[i].path = call.writes[i]

\* the learning curve of the second of two algorithms cannot be computed:
\* the file of the first is there, the file of the second is not
C13_Witness ==
    /\ call.op = "plot_learning_curve"
    /\ call.partition = "train"
    /\ model.algolist = <<"svm", "rf">>
    /\ call.iter = 2
    /\ call.err = "LibError"
    /\ call.writes = <<"/tmp/out/proj1/learning_curve_train_svm.png">>
    /\ call.wcalls # <<>>
    /\ "/tmp/out/proj1/learning_curve_train_rf.png" \notin DOMAIN disk

PerAlgorithmRoutines == LoopRoutines \cup {"plot_importance"}

\* what the figure of the tag holds is drawn by the routine just called,
\* for the algorithm of the tag
OwnData(w, a) ==
    /\ w.tag = call.partition \o USEP \o a.algo
    /\ a.kind = Category(call.op)
    /\ a.partition = call.partition

\* the files saved by the routines ops in the call just made hold nothing
\* but the data of their own algorithm
OwnDataOnly(ops) ==
    call.op \in ops =>
        \A i \in DOMAIN call.wcalls :
            call.wcalls[i].path \in Range(call.writes) =>
                \A a \in disk[call.wcalls[i].path].artists : OwnData(call.wcalls[i], a)

\* C14: every file saved by feature importance, learning curve, ROC curve,
\* confusion matrix and validation curve holds the curves of the algorithm
\* named in its tag and nothing else, the curves of each algorithm being
\* drawn on a figure of their own.
C14_OwnDataOnly == OwnDataOnly(PerAlgorithmRoutines)

\* the four routines that call plt.figure() in their loop body do keep the
\* algorithms apart
C14_FreshFigureWhereCreated == OwnDataOnly(PerAlgorithmRoutines \ {"plot_validation_curve"})

\* plot_validation_curve for svm then rf: the figure saved for rf still
\* holds the curves of svm
C14_SharedFigure ==
    /\ call.op = "plot_validation_curve"
    /\ call.partition = "train"
    /\ call.err = "none"
    /\ ncalls = 1
    /\ model.algolist = <<"svm", "rf">>
    /\ call.figs = 1
    /\ model.specs.base_dir = "/tmp/out"
    /\ disk["/tmp/out/proj1/validation_curve_train_rf.png"].artists =
          {Artist("validation_curve", "svm", "train"),
           Artist("validation_curve", "rf", "train")}

====
